---- MODULE Spec2Model ----
(***************************************************************************)
(* dwm-status-bar-rs (src/src/main.rs): monitor loops feed one bounded     *)
(* Update queue; the aggregator loop of main keeps the latest value per    *)
(* id, assembles the bar in MODULE_ORDER and hands it to xsetroot; the     *)
(* trigger listener turns debounced filesystem events into broadcast       *)
(* wake-ups.                                                               *)
(***************************************************************************)
EXTENDS Integers, Sequences, FiniteSets, TLC

(* ------------------------------------------------------------------ *)
(* Program constants                                                   *)
(* ------------------------------------------------------------------ *)

MODULE_ORDER ==
    << "vpn", "notification", "cpu_load", "ram", "disk", "cpu_temp",
       "gpu_temp", "battery", "volume", "bluetooth", "net", "datetime" >>

ModuleIds == { MODULE_ORDER[i] : i \in DOMAIN MODULE_ORDER }

\* mpsc::channel::<Update>(32)
UpdateCap == 32

\* broadcast::channel::<&'static str>(16)
BusCap == 16

(* ------------------------------------------------------------------ *)
(* Bounds of the model                                                 *)
(* ------------------------------------------------------------------ *)

\* Updates injected into the queue in the aggregator-only specification.
MaxUpdates == 4

\* Producer invocations started by the steady-state loops in one run.
MaxRuns == 2

\* Trigger ids published on the broadcast channel in one run.
MaxTriggers == 1

\* Debounced events handed to the listener callback in one batch.
MaxBatch == 1

(* ------------------------------------------------------------------ *)
(* Monitors                                                            *)
(* ------------------------------------------------------------------ *)

\* The monitor tasks of the modelled run: of the spawn_monitor calls of main,
\* the two whose monitor functions share the System handle.
Spawned == { "ram", "disk" }

\* disk_monitor and ram_monitor share Arc<Mutex<System>>.
UsesSys(m) == m \in { "disk", "ram" }

Ok(s) == [ ok |-> TRUE, value |-> s ]
Err == [ ok |-> FALSE, value |-> "" ]

Update(id, value) == [ id |-> id, value |-> value ]

(* ------------------------------------------------------------------ *)
(* State                                                               *)
(* ------------------------------------------------------------------ *)

VARIABLES
    pc,          \* per monitor task: position in the spawned async block
    pending,     \* per monitor task: the value matched by Ok(value), not yet sent
    last_result, \* per monitor task: outcome of the last task().await
    inflight,    \* per monitor task: producer invocations started and not completed
    interval,    \* per monitor task: state of tokio::time::interval
    trigger_rx,  \* per monitor task: unread events of its broadcast::Receiver
    sys,         \* holder of the Mutex<System>, or "none"
    update_q,    \* the mpsc channel of Updates
    results,     \* HashMap<&'static str, String> of main
    aggPc,       \* main's while-let loop: "recv" or "sink"
    bar_string,  \* the string assembled for the Update being processed
    sink_status, \* result of the last Command::status() in set_xroot_name
    sink_calls,  \* names passed to set_xroot_name for the Update being processed
    last_send,   \* the last trigger_tx.send: its id and the receivers it reached
    ntriggers,   \* number of trigger_tx.send calls so far
    last_cb,     \* whether the last callback batch named a module id
    last_op,     \* the filesystem operation behind the last event that was published
    nruns,       \* number of producer invocations started by the loops so far
    injected,    \* Updates put on the queue by the environment (aggregator-only runs)
    disk_used    \* used space of the '/' disk, in percent, as sysinfo reports it

monVars == << pc, pending, last_result, inflight, interval, trigger_rx, sys >>
aggVars == << results, aggPc, bar_string, sink_status, sink_calls >>
trigVars == << last_send, ntriggers, last_cb, last_op >>
envVars == << injected, disk_used >>
vars == << pc, pending, last_result, inflight, interval, trigger_rx, sys,
           update_q, results, aggPc, bar_string, sink_status, sink_calls,
           last_send, ntriggers, last_cb, last_op, nruns, injected, disk_used >>

\* format!("disk: {:.0}%", used_pct)
DiskText(pct) == "disk: " \o ToString(pct) \o "%"

\* What one invocation of a monitor function can return: vpn_monitor,
\* ram_monitor, disk_monitor (the used space of '/', or Err when the '/'
\* disk is not found) and datetime_monitor with sample values; the other
\* monitor functions are not invoked in the model.
ProducerResults(m) ==
    CASE m = "vpn"      -> { Ok("VPN"), Ok("") }
      [] m = "ram"      -> { Ok("ram: 40%") }
      [] m = "disk"     -> { Ok(DiskText(disk_used)), Err }
      [] m = "datetime" -> { Ok("Mon 02 Nov 10:00:00"), Ok("Mon 02 Nov 10:00:01") }
      [] OTHER          -> { Err }

(* ------------------------------------------------------------------ *)
(* assemble_bar                                                        *)
(* ------------------------------------------------------------------ *)

\* Mutant of Fragment: the lookup without the is_empty filter.
FragmentUnfiltered(res, id) ==
    IF id \in DOMAIN res THEN << res[id] >> ELSE << >>

\* results.get(id).cloned().filter(|s| !s.is_empty())
Fragment(res, id) ==
    IF id \in DOMAIN res /\ res[id] # "" THEN << res[id] >> ELSE << >>

RECURSIVE Parts(_, _)
\* MODULE_ORDER.iter().filter_map(..).collect(), from position i on
Parts(res, i) ==
    IF i > Len(MODULE_ORDER) THEN << >>
    ELSE Fragment(res, MODULE_ORDER[i]) \o Parts(res, i + 1)

RECURSIVE Join(_, _)
\* parts.join(sep)
Join(parts, sep) ==
    IF parts = << >> THEN ""
    ELSE IF Len(parts) = 1 THEN parts[1]
    ELSE parts[1] \o sep \o Join(Tail(parts), sep)

assemble_bar(res) == " " \o Join(Parts(res, 1), " | ") \o " "

\* Mutant of Insert: entry(id).or_insert(value), which keeps the first value.
InsertKeepFirst(res, u) ==
    [ k \in DOMAIN res \cup { u.id } |-> IF k \in DOMAIN res THEN res[k] ELSE u.value ]

\* Mutant of Insert: the new value is appended to the stored one.
InsertAppend(res, u) ==
    [ k \in DOMAIN res \cup { u.id } |->
        IF k # u.id THEN res[k]
        ELSE IF k \in DOMAIN res THEN res[k] \o u.value ELSE u.value ]

\* results_guard.insert(update.id, update.value)
Insert(res, u) ==
    [ k \in DOMAIN res \cup { u.id } |-> IF k = u.id THEN u.value ELSE res[k] ]

(* ------------------------------------------------------------------ *)
(* Monitor loop: the async block spawned by spawn_monitor              *)
(* ------------------------------------------------------------------ *)

\* The async block has not returned: the task still holds its Sender clone
\* and its broadcast::Receiver.  "disabled" is the return of the failed
\* initial run, "exited" the return or break after a failed tx.send.
Live(m) == pc[m] \notin { "disabled", "exited" }

\* update_rx has been dropped: main's while-let loop is over.
RxClosed == aggPc = "done"

\* A producer invocation (task().await) is being awaited.
Running(m) == pc[m] \in { "init_run", "run" }

\* Mutant of Selecting: wake-ups are taken while an iteration is under way.
SelectingWhileBusy(m) == pc[m] \in { "wait", "run", "send" }

\* The loop is at tokio::select!, reached only from the end of an iteration.
Selecting(m) == pc[m] = "wait"

\* select! is being awaited, with the trigger_rx.recv() branch enabled
\* ("wait") or disabled because recv() returned an Err that the pattern
\* Ok(triggered_id) does not match ("wait_tick").
AtSelect(m) == Selecting(m) \/ pc[m] = "wait_tick"

\* Err(RecvError::Lagged(_)), the next result of recv() on a receiver that
\* has been overtaken; it stands at the head of the receiver's unread events.
Lagged == "Lagged"

\* Mutant of HasRoom: the channel takes any number of Updates.
HasRoomAlways == TRUE

\* tx.send(..).await completes once the channel has room.
HasRoom == Len(update_q) < UpdateCap

\* sys.lock() returns once no other monitor holds the guard.
LockFree == sys = "none"

\* The task is polled for the first time: task().await of the initial run.
Start(m) ==
    /\ pc[m] = "start"
    /\ pc' = [pc EXCEPT ![m] = "init_run"]
    /\ inflight' = [inflight EXCEPT ![m] = @ + 1]
    /\ UNCHANGED << pending, last_result, interval, trigger_rx, sys,
                    update_q, aggVars, trigVars, envVars, nruns >>

\* disk_monitor / ram_monitor: let mut sys = sys.lock().unwrap()
Lock(m) ==
    /\ Running(m)
    /\ UsesSys(m)
    /\ sys # m
    /\ LockFree
    /\ sys' = m
    /\ UNCHANGED << pc, pending, last_result, inflight, interval, trigger_rx,
                    update_q, aggVars, trigVars, envVars, nruns >>

\* The monitor function has everything it needs to return.
CanReturn(m) == UsesSys(m) => sys = m

\* The guard is dropped when the monitor function returns.
Unlock(m) == IF sys = m THEN "none" ELSE sys

\* Mutant of AfterInitial: a failed initial run enters the loop all the same.
AfterInitialKeepsLooping(r) == IF r.ok THEN "init_send" ELSE "wait"

\* match task().await of the initial run: Ok(value) goes on to send,
\* Err(e) logs the warning and returns from the task.
AfterInitial(r) == IF r.ok THEN "init_send" ELSE "disabled"

\* Mutant of AfterRun: a failed run in the loop breaks out of the loop.
AfterRunExits(r) == IF r.ok THEN "send" ELSE "exited"

\* Mutant of AfterRun: a failed run in the loop ends the task, as the initial
\* one does.
AfterRunDisables(r) == IF r.ok THEN "send" ELSE "disabled"

\* match task().await in the loop: Ok(value) goes on to send, Err(e) logs
\* the error and the loop goes round to select!.
AfterRun(r) == IF r.ok THEN "send" ELSE "wait"

\* The initial task().await completes with r.
InitialDone(m) ==
    /\ pc[m] = "init_run"
    /\ CanReturn(m)
    /\ \E r \in ProducerResults(m) :
         /\ last_result' = [last_result EXCEPT ![m] = IF r.ok THEN "ok" ELSE "err"]
         /\ pc' = [pc EXCEPT ![m] = AfterInitial(r)]
         /\ pending' = [pending EXCEPT ![m] = IF r.ok THEN << r.value >> ELSE @]
         \* returning drops trigger_rx
         /\ trigger_rx' = [trigger_rx EXCEPT ![m] = IF r.ok THEN @ ELSE << >>]
    /\ inflight' = [inflight EXCEPT ![m] = @ - 1]
    /\ sys' = Unlock(m)
    /\ UNCHANGED << interval, update_q, aggVars, trigVars, envVars, nruns >>

\* tx.send(Update { id, value }).await of the initial run, then
\* tokio::time::interval(interval_duration): its first tick is immediate.
InitialSend(m) ==
    /\ pc[m] = "init_send"
    /\ IF RxClosed
       THEN \* is_err(): return
            /\ pc' = [pc EXCEPT ![m] = "exited"]
            /\ trigger_rx' = [trigger_rx EXCEPT ![m] = << >>]
            /\ UNCHANGED << update_q, interval >>
       ELSE /\ HasRoom
            /\ update_q' = Append(update_q, Update(m, pending[m][1]))
            /\ pc' = [pc EXCEPT ![m] = "wait"]
            /\ interval' = [interval EXCEPT ![m] = "immediate"]
            /\ UNCHANGED trigger_rx
    /\ pending' = [pending EXCEPT ![m] = << >>]
    /\ UNCHANGED << last_result, inflight, sys, aggVars, trigVars,
                    envVars, nruns >>

\* select!: _ = interval.tick() => {}, then task().await.  The first tick
\* of the interval completes at once; every later one completes when the
\* period has passed since the tick before it.
SelectTick(m) ==
    /\ AtSelect(m)
    /\ interval[m] \in { "immediate", "periodic" }
    /\ interval' = [interval EXCEPT ![m] = "periodic"]
    /\ pc' = [pc EXCEPT ![m] = "run"]
    /\ inflight' = [inflight EXCEPT ![m] = @ + 1]
    /\ UNCHANGED << pending, last_result, trigger_rx, sys, update_q, aggVars,
                    trigVars, envVars >>

\* Mutant of Matches: no trigger id is taken as the task's own.
MatchesNone(m, triggered_id) == FALSE

\* Mutant of Matches: every trigger id is taken as the task's own.
MatchesAny(m, triggered_id) == TRUE

\* if triggered_id != id { continue; }
Matches(m, triggered_id) == triggered_id = m

\* select!: Ok(triggered_id) = trigger_rx.recv() with triggered_id == id,
\* then task().await.
SelectTrigger(m) ==
    /\ Selecting(m)
    /\ trigger_rx[m] # << >>
    /\ Head(trigger_rx[m]) # Lagged
    /\ Matches(m, Head(trigger_rx[m]))
    /\ trigger_rx' = [trigger_rx EXCEPT ![m] = Tail(@)]
    /\ pc' = [pc EXCEPT ![m] = "run"]
    /\ inflight' = [inflight EXCEPT ![m] = @ + 1]
    /\ UNCHANGED << pending, last_result, interval, sys, update_q, aggVars,
                    trigVars, envVars >>

\* The tick wake-up, within the model's bound on producer invocations.
WakeTick(m) ==
    /\ nruns < MaxRuns
    /\ SelectTick(m)
    /\ nruns' = nruns + 1

\* The trigger wake-up, within the model's bound on producer invocations.
WakeTrigger(m) ==
    /\ nruns < MaxRuns
    /\ SelectTrigger(m)
    /\ nruns' = nruns + 1

\* The tick wake-up where the invocations are not counted.
LoopTick(m) == SelectTick(m) /\ UNCHANGED nruns

\* The trigger wake-up where the invocations are not counted.
LoopTrigger(m) == SelectTrigger(m) /\ UNCHANGED nruns

\* select!: Ok(triggered_id) = trigger_rx.recv() with another id: continue,
\* which awaits select! again; the interval keeps its deadline.
DiscardTrigger(m) ==
    /\ Selecting(m)
    /\ trigger_rx[m] # << >>
    /\ Head(trigger_rx[m]) # Lagged
    /\ ~Matches(m, Head(trigger_rx[m]))
    /\ trigger_rx' = [trigger_rx EXCEPT ![m] = Tail(@)]
    /\ UNCHANGED << pc, pending, last_result, inflight, interval, sys,
                    update_q, aggVars, trigVars, envVars, nruns >>

\* select!: trigger_rx.recv() returns Err(Lagged(_)); the pattern
\* Ok(triggered_id) does not match, the branch is disabled and this select!
\* is left to interval.tick().
RecvLagged(m) ==
    /\ Selecting(m)
    /\ trigger_rx[m] # << >>
    /\ Head(trigger_rx[m]) = Lagged
    /\ trigger_rx' = [trigger_rx EXCEPT ![m] = Tail(@)]
    /\ pc' = [pc EXCEPT ![m] = "wait_tick"]
    /\ UNCHANGED << pending, last_result, inflight, interval, sys,
                    update_q, aggVars, trigVars, envVars, nruns >>

\* A task().await of the loop completes with r.
Done(m) ==
    /\ pc[m] = "run"
    /\ CanReturn(m)
    /\ \E r \in ProducerResults(m) :
         /\ last_result' = [last_result EXCEPT ![m] = IF r.ok THEN "ok" ELSE "err"]
         /\ pc' = [pc EXCEPT ![m] = AfterRun(r)]
         /\ pending' = [pending EXCEPT ![m] = IF r.ok THEN << r.value >> ELSE @]
    /\ inflight' = [inflight EXCEPT ![m] = @ - 1]
    /\ sys' = Unlock(m)
    /\ UNCHANGED << interval, trigger_rx, update_q, aggVars, trigVars, envVars, nruns >>

\* tx.send(Update { id, value }).await in the loop
Send(m) ==
    /\ pc[m] = "send"
    /\ IF RxClosed
       THEN \* is_err(): break
            /\ pc' = [pc EXCEPT ![m] = "exited"]
            /\ trigger_rx' = [trigger_rx EXCEPT ![m] = << >>]
            /\ UNCHANGED update_q
       ELSE /\ HasRoom
            /\ update_q' = Append(update_q, Update(m, pending[m][1]))
            /\ pc' = [pc EXCEPT ![m] = "wait"]
            /\ UNCHANGED trigger_rx
    /\ pending' = [pending EXCEPT ![m] = << >>]
    /\ UNCHANGED << last_result, inflight, interval, sys, aggVars,
                    trigVars, envVars, nruns >>

(* ------------------------------------------------------------------ *)
(* Trigger listener: the callback given to new_debouncer               *)
(* ------------------------------------------------------------------ *)

\* event.path.file_name().and_then(|s| s.to_str()) of the events the
\* debouncer can deliver: ids of spawned monitors, an id with no monitor
\* task, a name that is no id, and a path with no UTF-8 file name.
EventNames == { << "disk" >>, << "battery" >>, << "disk.swp" >>, << >> }

RECURSIVE Find(_, _)
\* MODULE_ORDER.iter().find(|&&m| m == id_str), from position i on
Find(id_str, i) ==
    IF i > Len(MODULE_ORDER) THEN << >>
    ELSE IF MODULE_ORDER[i] = id_str THEN << MODULE_ORDER[i] >>
    ELSE Find(id_str, i + 1)

\* Mutant of Published: the file name is sent without the MODULE_ORDER lookup.
PublishedUnchecked(name) == name

\* The id the callback publishes for one event, if any.
Published(name) == IF name = << >> THEN << >> ELSE Find(name[1], 1)

RECURSIVE PublishedAll(_)
\* for event in events { .. tx.send(id) .. }: the ids sent, in order
PublishedAll(events) ==
    IF events = << >> THEN << >>
    ELSE Published(Head(events)) \o PublishedAll(Tail(events))

\* The filesystem operation on a file of TRIGGER_DIR that raised an event.
\* A DebouncedEvent carries the path; the callback reads nothing else.
FsOps == { "create", "modify", "remove" }

\* Ok(events): batches of 1..MaxBatch events, file names from names and
\* operations from ops.
Batches(names, ops) ==
    UNION { { [ ok |-> TRUE, events |-> eo[1], ops |-> eo[2] ] :
                eo \in [ 1..n -> names ] \X [ 1..n -> ops ] } : n \in 1..MaxBatch }

\* Result<Vec<DebouncedEvent>, Error> handed to the callback: Err(errors),
\* or Ok(events) for files that were created.
DebounceResults ==
    { [ ok |-> FALSE, events |-> << >>, ops |-> << >> ] } \cup
    Batches(EventNames, { "create" })

\* Ok(events) for a file named like the disk monitor and a file with
\* another name, each created, modified or removed.
WatchResults == Batches({ << "disk" >>, << "disk.swp" >> }, FsOps)

\* A batch is "known" when one of its events is named like a module id.
BatchKind(res) ==
    IF \E i \in DOMAIN res.events :
          res.events[i] # << >> /\ res.events[i][1] \in ModuleIds
    THEN "known" ELSE "unknown"

\* if let Ok(events) = res { for event in events { .. tx.send(id) .. } }
Sent(res) == IF res.ok THEN PublishedAll(res.events) ELSE << >>

\* The operation behind the last event of the batch that was published.
LastOp(res) ==
    LET sending == { i \in DOMAIN res.events : Published(res.events[i]) # << >> }
    IN IF ~res.ok \/ sending = {} THEN "none"
       ELSE res.ops[CHOOSE i \in sending : \A j \in sending : j <= i]

\* The events a receiver has not read yet, without a pending Lagged result.
Unread(rx) == IF rx # << >> /\ Head(rx) = Lagged THEN Tail(rx) ELSE rx

\* Mutant of Push: a full subscription refuses the new event.
PushDropNewest(rx, id) ==
    IF Len(Unread(rx)) < BusCap THEN Append(rx, id) ELSE rx

\* broadcast send seen from one receiver: the value is stored at once; when
\* the receiver already has BusCap unread values the oldest one is
\* overwritten and its next recv() is Err(Lagged(_)).
Push(rx, id) ==
    IF Len(Unread(rx)) < BusCap THEN Append(rx, id)
    ELSE << Lagged >> \o Tail(Unread(rx)) \o << id >>

RECURSIVE PushAll(_, _)
\* the sends of one callback, in order
PushAll(rx, ids) ==
    IF ids = << >> THEN rx ELSE PushAll(Push(rx, Head(ids)), Tail(ids))

\* broadcast send: every live receiver gets the ids
Deliver(rx, ids) ==
    [ m \in Spawned |-> IF Live(m) THEN PushAll(rx[m], ids) ELSE rx[m] ]

\* The debouncer calls back with res; let _ = tx.send(id) never waits.
Callback(res) ==
    LET ids == Sent(res) IN
    /\ trigger_rx' = Deliver(trigger_rx, ids)
    /\ last_send' =
         IF ids = << >> THEN last_send
         ELSE [ id |-> ids[Len(ids)], to |-> { m \in Spawned : Live(m) } ]
    /\ last_cb' = BatchKind(res)
    /\ last_op' = IF ids = << >> THEN last_op ELSE LastOp(res)
    /\ UNCHANGED << pc, pending, last_result, inflight, interval, sys,
                    update_q, aggVars, envVars, nruns >>

\* A callback, within the model's bound on published trigger ids.
OnDebounced ==
    \E res \in DebounceResults :
       /\ ntriggers + Len(Sent(res)) <= MaxTriggers
       /\ Callback(res)
       /\ ntriggers' = ntriggers + Len(Sent(res))

\* A callback for the watched files where the published ids are not counted.
OnWatched ==
    \E res \in WatchResults : Callback(res) /\ UNCHANGED ntriggers

(* ------------------------------------------------------------------ *)
(* Aggregator: the while-let loop of main, and set_xroot_name          *)
(* ------------------------------------------------------------------ *)

\* Mutant of Recv: the newest queued Update is taken.
RecvNewest(q) == q[Len(q)]

\* update_rx.recv() yields the oldest queued Update
Recv(q) == Head(q)

\* The Senders of the Update channel: update_tx of main, which main never
\* drops, and the clone moved into each monitor task.
Senders == { "main" } \cup { m \in Spawned : Live(m) }

\* Mutant of RecvNone: recv() gives None whenever the queue is empty.
RecvNoneWhenEmpty(q, senders) == q = << >>

\* update_rx.recv() returns None once the queue is empty and every Sender
\* has been dropped.
RecvNone(q, senders) == q = << >> /\ senders = {}

\* Mutant of AfterRecv: the sink is called only once the queue is drained.
AfterRecvBatches(q) == IF q # << >> THEN "recv" ELSE "sink"

\* After insert and assemble_bar the loop body calls set_xroot_name.
AfterRecv(q) == "sink"

\* while let Some(update) = update_rx.recv().await { insert; assemble_bar };
\* on None the loop ends, main returns and update_rx is dropped.
AggRecv ==
    /\ aggPc = "recv"
    /\ IF update_q # << >>
       THEN /\ results' = Insert(results, Recv(update_q))
            /\ update_q' = Tail(update_q)
            /\ bar_string' = assemble_bar(results')
            /\ sink_calls' = << >>
            /\ aggPc' = AfterRecv(update_q')
       ELSE /\ RecvNone(update_q, Senders)
            /\ aggPc' = "done"
            /\ UNCHANGED << results, update_q, bar_string, sink_calls >>
    /\ UNCHANGED << monVars, sink_status, trigVars, envVars, nruns >>

\* Command::new("xsetroot").arg("-name").arg(name).status(): Ok(exit status)
\* when xsetroot ran, Err(e) when it could not be run.
SinkOutcomes == { "ok", "err" }

\* Mutant of AfterSink: a failed xsetroot ends the loop (as .expect would).
AfterSinkStops(outcome) == IF outcome = "err" THEN "stopped" ELSE "recv"

\* After set_xroot_name returns, the loop awaits the next Update.
AfterSink(outcome) == "recv"

\* set_xroot_name(&bar_string)
AggSink ==
    /\ aggPc = "sink"
    /\ \E outcome \in SinkOutcomes :
         /\ sink_status' = outcome
         /\ aggPc' = AfterSink(outcome)
    /\ sink_calls' = Append(sink_calls, bar_string)
    /\ UNCHANGED << monVars, update_q, results, bar_string, trigVars, envVars, nruns >>

(* ------------------------------------------------------------------ *)
(* Environment of the aggregator-only runs: any Update may arrive      *)
(* ------------------------------------------------------------------ *)

\* Ids whose Updates are injected.
InjectIds == { "vpn", "ram", "disk", "datetime" }

Inject ==
    /\ Len(injected) < MaxUpdates
    /\ HasRoom
    /\ \E id \in InjectIds : \E r \in ProducerResults(id) :
         /\ r.ok
         /\ update_q' = Append(update_q, Update(id, r.value))
         /\ injected' = Append(injected, Update(id, r.value))
    /\ UNCHANGED << monVars, aggVars, trigVars, nruns, disk_used >>

\* update_rx is dropped while monitor tasks are alive: the receiving end of
\* the Update channel is closed and the Updates still queued go with it.
\* main's own loop never comes to this (RecvNone); the step belongs to the
\* runs that look at how a monitor task reacts to the closed channel.
DropRx ==
    /\ aggPc = "recv"
    /\ aggPc' = "done"
    /\ update_q' = << >>
    /\ UNCHANGED << monVars, results, bar_string, sink_status, sink_calls,
                    trigVars, nruns, envVars >>

\* Used space of '/', in percent, that the model's environment moves between.
DiskLevels == { 50, 51 }

\* The used space of the '/' disk changes.
DiskChanges ==
    /\ \E pct \in DiskLevels \ { disk_used } : disk_used' = pct
    /\ UNCHANGED << monVars, update_q, aggVars, trigVars, nruns, injected >>

(* ------------------------------------------------------------------ *)
(* Specifications                                                      *)
(* ------------------------------------------------------------------ *)

Init ==
    /\ pc = [ m \in Spawned |-> "start" ]
    /\ pending = [ m \in Spawned |-> << >> ]
    /\ last_result = [ m \in Spawned |-> "none" ]
    /\ inflight = [ m \in Spawned |-> 0 ]
    /\ interval = [ m \in Spawned |-> "none" ]
    /\ trigger_rx = [ m \in Spawned |-> << >> ]
    /\ sys = "none"
    /\ update_q = << >>
    /\ results = [ k \in {} |-> "" ]
    /\ aggPc = "recv"
    /\ bar_string = ""
    /\ sink_status = "none"
    /\ sink_calls = << >>
    /\ last_send = [ id |-> "", to |-> {} ]
    /\ ntriggers = 0
    /\ last_cb = "none"
    /\ last_op = "none"
    /\ nruns = 0
    /\ injected = << >>
    /\ disk_used = 50

MonitorStep(m) ==
    \/ Start(m)
    \/ Lock(m)
    \/ InitialDone(m)
    \/ InitialSend(m)
    \/ WakeTick(m)
    \/ WakeTrigger(m)
    \/ DiscardTrigger(m)
    \/ Done(m)
    \/ Send(m)

Next ==
    \/ \E m \in Spawned : MonitorStep(m)
    \/ OnDebounced
    \/ AggRecv
    \/ AggSink

Spec == Init /\ [][Next]_vars

\* The steps of a monitor task where a trigger wake-up is never held back by
\* the bound on invocations (the published triggers are bounded).
LiveStep(m) ==
    \/ Start(m)
    \/ Lock(m)
    \/ InitialDone(m)
    \/ InitialSend(m)
    \/ WakeTick(m)
    \/ LoopTrigger(m)
    \/ DiscardTrigger(m)
    \/ Done(m)
    \/ Send(m)

\* The monitor task whose loop is followed under fairness: the one whose
\* producer can fail.
Followed == { "disk" }

NextLive ==
    \/ \E m \in Followed : LiveStep(m)
    \/ OnDebounced
    \/ DiskChanges
    \/ AggRecv
    \/ AggSink

\* The tokio runtime polls every task that can make progress, a monitor
\* function that has what it needs returns, select! picks among its ready
\* branches at random, and main's loop runs whenever an Update is queued.
\* Nothing is assumed of the interval ticks, of the callbacks or of the disk.
Fairness ==
    /\ \A m \in Followed :
          /\ WF_vars(Start(m))
          /\ WF_vars(Lock(m))
          /\ WF_vars(InitialDone(m))
          /\ WF_vars(InitialSend(m))
          /\ SF_vars(LoopTrigger(m))
          /\ WF_vars(DiscardTrigger(m))
          /\ WF_vars(Done(m))
          /\ WF_vars(Send(m))
    /\ WF_vars(AggRecv)
    /\ WF_vars(AggSink)

SpecLive == Init /\ [][NextLive]_vars /\ Fairness

\* The steps of a monitor task with no bound on its invocations.
LoopStep(m) ==
    \/ Start(m)
    \/ Lock(m)
    \/ InitialDone(m)
    \/ InitialSend(m)
    \/ LoopTick(m)
    \/ LoopTrigger(m)
    \/ DiscardTrigger(m)
    \/ Done(m)
    \/ Send(m)

\* A run in which the receiving end of the Update channel may be dropped.
NextShut ==
    \/ \E m \in Followed : LoopStep(m)
    \/ OnDebounced
    \/ AggRecv
    \/ AggSink
    \/ DropRx

\* Time passes: a loop waiting at select! gets its tick.
TicksCome == \A m \in Followed : WF_vars(LoopTick(m))

SpecShut == Init /\ [][NextShut]_vars /\ Fairness /\ TicksCome

\* The steps of a monitor task whose receiver may lag behind the callback.
WatchStep(m) ==
    \/ Start(m)
    \/ Lock(m)
    \/ InitialDone(m)
    \/ InitialSend(m)
    \/ LoopTick(m)
    \/ LoopTrigger(m)
    \/ RecvLagged(m)
    \/ Done(m)
    \/ Send(m)

\* A run in which the files disk and disk.swp of the trigger directory are
\* created, modified and removed at any pace while main's loop is held up:
\* the callback thread against one monitor task and a subscription
\* (ram's) that is never read.
NextWatch ==
    \/ \E m \in Followed : WatchStep(m)
    \/ OnWatched

SpecWatch == Init /\ [][NextWatch]_vars

\* The monitor whose loop keeps ticking while main is slow.
Ticking == "ram"

\* A burst: every monitor task makes its initial run, the loop of one of
\* them goes on ticking without a bound on its invocations, and main takes
\* Updates at its own pace.
NextBurst ==
    \/ \E m \in Spawned : Start(m) \/ Lock(m) \/ InitialDone(m) \/ InitialSend(m)
    \/ LoopTick(Ticking)
    \/ Done(Ticking)
    \/ Send(Ticking)
    \/ AggRecv
    \/ AggSink

SpecBurst == Init /\ [][NextBurst]_vars

NextAgg ==
    \/ Inject
    \/ AggRecv
    \/ AggSink

SpecAgg == Init /\ [][NextAgg]_vars

(* ------------------------------------------------------------------ *)
(* What the aggregator has consumed                                    *)
(* ------------------------------------------------------------------ *)

\* The injected Updates the aggregator has taken from the queue, in order.
Consumed == SubSeq(injected, 1, Len(injected) - Len(update_q))

\* The ids that have an Update in hist.
ReportedIds(hist) == { hist[i].id : i \in DOMAIN hist }

\* The value of the last Update of id in hist.
LatestValue(hist, id) ==
    LET last == CHOOSE i \in DOMAIN hist :
                   /\ hist[i].id = id
                   /\ \A j \in DOMAIN hist : hist[j].id = id => j <= i
    IN hist[last].value

\* The latest value per reported id.
LatestMap(hist) == [ id \in ReportedIds(hist) |-> LatestValue(hist, id) ]

\* The ids a bar shows for a latest-value map, in priority order.
ShownIds(latest) ==
    SelectSeq(MODULE_ORDER, LAMBDA id : id \in DOMAIN latest /\ latest[id] # "")

RECURSIVE JoinedUpTo(_, _, _)
\* The first n shown values, separated by " | ".
JoinedUpTo(latest, shown, n) ==
    IF n = 0 THEN ""
    ELSE IF n = 1 THEN latest[shown[1]]
    ELSE JoinedUpTo(latest, shown, n - 1) \o " | " \o latest[shown[n]]

\* The bar a latest-value map determines.
BarOf(latest) ==
    " " \o JoinedUpTo(latest, ShownIds(latest), Len(ShownIds(latest))) \o " "

(* ------------------------------------------------------------------ *)
(* C1                                                                  *)
(* ------------------------------------------------------------------ *)

\* C1: once the aggregator has processed a sequence of Updates, the string it
\* hands to the sink is a space, the latest received values of the ids that
\* have reported a non-empty value, in MODULE_ORDER and joined by " | ", and a
\* space; it is a function of the latest value per id alone, so the arrival
\* order across ids does not matter.
C1_RenderedIsLatestInOrder ==
    Consumed # << >> => bar_string = BarOf(LatestMap(Consumed))

\* C1 witness: four Updates arrived against the priority order, one id twice
\* with different values, and the bar shows the latest values in order.
C1_Witness ==
    /\ aggPc = "sink"
    /\ Len(Consumed) = 4
    /\ Consumed[1] = Update("datetime", "Mon 02 Nov 10:00:00")
    /\ Consumed[2] = Update("ram", "ram: 40%")
    /\ Consumed[3] = Update("vpn", "VPN")
    /\ Consumed[4] = Update("datetime", "Mon 02 Nov 10:00:01")
    /\ bar_string = " VPN | ram: 40% | Mon 02 Nov 10:00:01 "

(* ------------------------------------------------------------------ *)
(* C4                                                                  *)
(* ------------------------------------------------------------------ *)

\* hist without the Updates of id
Without(hist, id) == SelectSeq(hist, LAMBDA u : u.id # id)

\* seq without the element x
Except(seq, x) == SelectSeq(seq, LAMBDA y : y # x)

\* The scenario of the specification: ram and datetime report, then vpn
\* reports an empty value, then vpn reports "VPN".
ScenarioUpdates ==
    << Update("ram", "ram: 40%"), Update("datetime", "Mon 02 Nov 10:00:00"),
       Update("vpn", ""), Update("vpn", "VPN") >>

C4_Scenario ==
    /\ Consumed = SubSeq(ScenarioUpdates, 1, 2)
         => bar_string = " ram: 40% | Mon 02 Nov 10:00:00 "
    /\ Consumed = SubSeq(ScenarioUpdates, 1, 3)
         => bar_string = " ram: 40% | Mon 02 Nov 10:00:00 "
    /\ Consumed = ScenarioUpdates
         => bar_string = " VPN | ram: 40% | Mon 02 Nov 10:00:00 "

\* While the latest value of an id is empty the id is a key of the map with
\* the empty value, and the bar is the one of the same Updates without that id.
C4_EmptyHides ==
    \A id \in ReportedIds(Consumed) :
       LatestValue(Consumed, id) = "" =>
          /\ id \in DOMAIN results
          /\ results[id] = ""
          /\ bar_string = BarOf(LatestMap(Without(Consumed, id)))

\* The aggregator takes the Update u from the queue.
C4_Step(u) ==
    /\ u.id \in DOMAIN results' /\ results'[u.id] = u.value
    /\ \A k \in DOMAIN results \ { u.id } : k \in DOMAIN results' /\ results'[k] = results[k]
    /\ Except(ShownIds(results'), u.id) = Except(ShownIds(results), u.id)
    /\ (\E i \in DOMAIN ShownIds(results') : ShownIds(results')[i] = u.id) <=> u.value # ""
    /\ ( /\ u.value = ""
         /\ Consumed # << >>
         /\ (u.id \in DOMAIN results => results[u.id] = "") )
       => bar_string' = bar_string

\* C4: an Update with an empty value for an id sets its entry to the empty
\* string and its fragment and separator are left out of every render until a
\* non-empty Update for it arrives; an empty Update for an absent or already
\* empty id leaves the rendered string as it was; a non-empty Update puts the
\* fragment at the id's MODULE_ORDER position and leaves the other fragments
\* and their order alone (the vpn/ram/datetime scenario included).
C4_EmptyValueHidden ==
    /\ [](C4_Scenario /\ C4_EmptyHides)
    /\ [][ (aggPc = "recv" /\ aggPc' # "recv") => C4_Step(Head(update_q)) ]_vars

\* C4 witness: the scenario has run to its end.
C4_Witness ==
    /\ Consumed = ScenarioUpdates
    /\ aggPc = "sink"
    /\ results["vpn"] = "VPN"
    /\ bar_string = " VPN | ram: 40% | Mon 02 Nov 10:00:00 "

(* ------------------------------------------------------------------ *)
(* C5                                                                  *)
(* ------------------------------------------------------------------ *)

\* C5: when the aggregator takes from the queue an Update equal to the one it
\* processed last, the map stays as it is and the rendered string is the same.
C5_RedeliveryIdempotent ==
    [][ ( /\ aggPc = "recv" /\ aggPc' # "recv"
          /\ Consumed # << >>
          /\ Head(update_q) = Consumed[Len(Consumed)] )
        => (results' = results /\ bar_string' = bar_string) ]_vars

\* C5 witness: the last two Updates processed are the same non-empty Update.
C5_Witness ==
    /\ aggPc = "sink"
    /\ Len(Consumed) >= 3
    /\ Consumed[Len(Consumed)] = Consumed[Len(Consumed) - 1]
    /\ Consumed[Len(Consumed)].value # ""
    /\ bar_string = " VPN | ram: 40% "

(* ------------------------------------------------------------------ *)
(* C2                                                                  *)
(* ------------------------------------------------------------------ *)

\* m has no Update in the queue and no entry in the map, and the bar is the
\* bar of the other ids.
NeverReported(m) ==
    /\ \A i \in DOMAIN update_q : update_q[i].id # m
    /\ m \notin DOMAIN results
    /\ bar_string \in { "", BarOf(results) }

\* The task of m has returned and holds nothing.
Stopped(m) ==
    /\ pc[m] = "disabled"
    /\ inflight[m] = 0
    /\ pending[m] = << >>
    /\ trigger_rx[m] = << >>

\* C2: a monitor whose initial producer invocation fails is disabled for
\* good: its task never invokes the producer again and never sends an Update,
\* its id never becomes a key of results nor a fragment of the bar, whatever
\* triggers for its id are published afterwards.
C2_InitialFailureDisables ==
    /\ [](\A m \in Spawned : pc[m] = "disabled" => Stopped(m) /\ NeverReported(m))
    /\ [][ \A m \in Spawned :
             /\ (pc[m] = "init_run" /\ pc'[m] # "init_run" /\ last_result'[m] = "err")
                   => pc'[m] = "disabled"
             /\ pc[m] = "disabled" => pc'[m] = "disabled" ]_vars

\* C2 witness: disk failed its initial run, a trigger for disk was published
\* after that and reached ram alone, and the bar shows ram only.
C2_Witness ==
    /\ pc["disk"] = "disabled"
    /\ last_result["disk"] = "err"
    /\ last_send = [ id |-> "disk", to |-> { "ram" } ]
    /\ aggPc = "sink"
    /\ bar_string = " ram: 40% "

(* ------------------------------------------------------------------ *)
(* C3                                                                  *)
(* ------------------------------------------------------------------ *)

\* The per-task state of every monitor but m is unchanged.
OthersUnchanged(m) ==
    \A o \in Spawned \ { m } :
       /\ pc'[o] = pc[o]
       /\ pending'[o] = pending[o]
       /\ inflight'[o] = inflight[o]
       /\ last_result'[o] = last_result[o]
       /\ interval'[o] = interval[o]
       /\ trigger_rx'[o] = trigger_rx[o]

\* C3: when a producer invocation of the loop fails, no Update is sent for
\* it, results is unchanged and no render or sink call is caused, so the
\* last successful value stays; the task goes back to waiting and neither the
\* aggregator nor another monitor task is touched.
C3_TransientFailureKeepsValue ==
    [][ \A m \in Spawned :
          (pc[m] = "run" /\ pc'[m] # "run" /\ last_result'[m] = "err") =>
             /\ pc'[m] = "wait"
             /\ pending'[m] = << >>
             /\ UNCHANGED << update_q, results, aggPc, bar_string, sink_status >>
             /\ OthersUnchanged(m) ]_vars

\* C3 witness: disk reported, then failed in the loop; its value is still in
\* the map and in the bar, and its task waits for the next wake-up.
C3_Witness ==
    /\ pc["disk"] = "wait"
    /\ last_result["disk"] = "err"
    /\ interval["disk"] = "periodic"
    /\ update_q = << >>
    /\ "disk" \in DOMAIN results /\ results["disk"] = "disk: 50%"
    /\ bar_string = " ram: 40% | disk: 50% "

(* ------------------------------------------------------------------ *)
(* C6                                                                  *)
(* ------------------------------------------------------------------ *)

\* C6: a monitor has at most one producer invocation in flight, and while
\* one is in flight no value of an earlier invocation is still waiting to be
\* accepted by the queue, whatever ticks and triggers arrive.
C6_OneInvocationInFlight ==
    \A m \in Spawned :
       /\ inflight[m] <= 1
       /\ inflight[m] > 0 => pending[m] = << >>
       /\ inflight[m] > 0 <=> Running(m)

\* C6 witness: a trigger for disk arrives while disk's producer is running.
C6_Witness ==
    /\ pc["disk"] = "run"
    /\ inflight["disk"] = 1
    /\ trigger_rx["disk"] = << "disk" >>

(* ------------------------------------------------------------------ *)
(* C7                                                                  *)
(* ------------------------------------------------------------------ *)

\* The next step of b's own cycle can be taken.
CanProceed(b) ==
    CASE pc[b] \in { "init_run", "run" } ->
           IF UsesSys(b) /\ sys # b THEN LockFree ELSE TRUE
      [] pc[b] \in { "init_send", "send" } -> HasRoom
      [] OTHER -> TRUE

\* C7: while the producer invocation of a monitor does not complete, every
\* other monitor can still take the next step of its cycle, disk and ram
\* included.
C7_NoMonitorDelaysAnother ==
    \A a \in Spawned : \A b \in Spawned \ { a } :
       Running(a) => CanProceed(b)

(* ------------------------------------------------------------------ *)
(* C8                                                                  *)
(* ------------------------------------------------------------------ *)

\* C8: a callback batch with no file name that is an id of MODULE_ORDER
\* publishes nothing and changes nothing: only module ids are ever sent on
\* the trigger channel, something is sent only by a batch that names a module
\* id, and a batch that names none leaves the subscriptions, the monitor
\* tasks, the queue, the map and the bar as they are.
C8_UnknownFilenameDropped ==
    /\ [](/\ \A m \in Spawned : \A i \in DOMAIN trigger_rx[m] : trigger_rx[m][i] \in ModuleIds
          /\ last_send.id \in ModuleIds \cup { "" })
    /\ [][ /\ ( \/ ntriggers' # ntriggers
                \/ last_send' # last_send
                \/ \E m \in Spawned : Len(trigger_rx'[m]) > Len(trigger_rx[m]) )
              => last_cb' = "known"
           /\ (last_cb' = "unknown" /\ last_cb # "unknown")
              => UNCHANGED << monVars, update_q, aggVars, last_send, ntriggers,
                              nruns, injected >> ]_vars

\* C8 witness: the last batch named no module id while disk waited in
\* select!; nothing was ever published and disk still waits.
C8_Witness ==
    /\ last_cb = "unknown"
    /\ ntriggers = 0
    /\ pc["disk"] = "wait"
    /\ interval["disk"] = "periodic"
    /\ trigger_rx["disk"] = << >>
    /\ bar_string = " ram: 40% | disk: 50% "

(* ------------------------------------------------------------------ *)
(* C10                                                                 *)
(* ------------------------------------------------------------------ *)

\* C10: a set_xroot_name call whose command fails changes nothing but the
\* log: results and the queue are unchanged, the aggregator goes back to
\* receiving, and no monitor task is stopped or otherwise touched.
C10_SinkFailureIgnored ==
    /\ [](aggPc \in { "recv", "sink" })
    /\ [][ (aggPc = "sink" /\ aggPc' # "sink" /\ sink_status' = "err") =>
              /\ aggPc' = "recv"
              /\ UNCHANGED << results, update_q, bar_string, monVars >> ]_vars

\* C10 witness: after a failed sink call the aggregator has taken the next
\* Update, and both monitor tasks are in their loops.
C10_Witness ==
    /\ sink_status = "err"
    /\ aggPc = "sink"
    /\ DOMAIN results = { "ram", "disk" }
    /\ \A m \in Spawned : pc[m] \in { "wait", "run", "send" }

(* ------------------------------------------------------------------ *)
(* C11                                                                 *)
(* ------------------------------------------------------------------ *)

\* The select! of m completes and its producer is invoked.
LoopRunStarts(m) == AtSelect(m) /\ pc'[m] = "run"

\* The step takes a trigger for m's own id from m's receiver.
OwnTriggerTaken(m) ==
    /\ trigger_rx[m] # << >>
    /\ Head(trigger_rx[m]) = m
    /\ trigger_rx'[m] = Tail(trigger_rx[m])

\* C11: after the initial run, every producer invocation of the loop, the
\* first one included, starts only when the period of the interval has
\* passed or a trigger with the monitor's own id has been received; the
\* producer is never invoked again right after the initial run.
C11_RunsOnlyAfterWakeUp ==
    [][ \A m \in Spawned :
          LoopRunStarts(m) => (interval[m] = "periodic" \/ OwnTriggerTaken(m)) ]_vars

(* ------------------------------------------------------------------ *)
(* C13                                                                 *)
(* ------------------------------------------------------------------ *)

\* The step takes a trigger carrying another module's id from m's receiver
\* while m is at select!.
ForeignTriggerTaken(m) ==
    /\ Selecting(m)
    /\ trigger_rx[m] # << >>
    /\ Head(trigger_rx[m]) \in ModuleIds \ { m }
    /\ trigger_rx'[m] = Tail(trigger_rx[m])

\* C13: a trigger carrying id X never makes a monitor with another id invoke
\* its producer: that monitor drops the event and stays at select!, and the
\* step starts no invocation, sends no Update and leaves the interval's
\* pending tick as it was.
C13_ForeignTriggerDiscarded ==
    [][ \A m \in Spawned :
          ForeignTriggerTaken(m) =>
             /\ pc'[m] = "wait"
             /\ inflight'[m] = inflight[m]
             /\ pending'[m] = pending[m]
             /\ last_result'[m] = last_result[m]
             /\ interval'[m] = interval[m]
             /\ UNCHANGED << update_q, nruns, sys, aggVars >> ]_vars

\* C13 witness: a trigger for disk reached ram while ram waited for its
\* first tick; ram has taken it off its receiver, has started no invocation
\* and its first tick is still to come.
C13_Witness ==
    /\ last_send.id = "disk"
    /\ "ram" \in last_send.to
    /\ trigger_rx["ram"] = << >>
    /\ pc["ram"] = "wait"
    /\ interval["ram"] = "immediate"
    /\ inflight["ram"] = 0
    /\ nruns = 0

(* ------------------------------------------------------------------ *)
(* C12                                                                 *)
(* ------------------------------------------------------------------ *)

\* The values a successful invocation of m's producer can give.
OkValues(m) ==
    IF m = "disk" THEN { DiskText(pct) : pct \in DiskLevels }
    ELSE { r.value : r \in { x \in ProducerResults(m) : x.ok } }

\* The bar handed to the sink was rendered from a map holding v for m.
ShownWith(m, v) ==
    /\ m \in DOMAIN results
    /\ results[m] = v
    /\ sink_calls = << assemble_bar(results) >>

\* A failed invocation of the loop leaves the task in its loop, at select!,
\* with its receiver and its interval.
C12_FailureKeepsLoop ==
    [][ \A m \in Spawned :
          (pc[m] = "run" /\ pc'[m] # "run" /\ last_result'[m] = "err") =>
             /\ pc'[m] = "wait"
             /\ trigger_rx'[m] = trigger_rx[m]
             /\ interval'[m] = interval[m] ]_vars

\* After a failed invocation the next tick wakes the loop, and so does a
\* trigger for its id.
C12_StillWakeable ==
    \A m \in Spawned :
       (pc[m] = "wait" /\ last_result[m] = "err") =>
          /\ Live(m)
          /\ ENABLED SelectTick(m)
          /\ (trigger_rx[m] # << >> /\ Head(trigger_rx[m]) = m) => ENABLED SelectTrigger(m)

\* C12: a failed invocation in the loop never disables the monitor: the
\* task stays alive at select! and invokes its producer again at the next
\* tick or matching trigger, and every later successful invocation is
\* published and reaches the bar handed to the sink.
C12_NoDisablementAfterFailure ==
    /\ C12_FailureKeepsLoop
    /\ []C12_StillWakeable
    /\ \A m \in Spawned : \A v \in OkValues(m) :
          (pc[m] = "send" /\ pending[m] = << v >>) ~> ShownWith(m, v)

\* C12 witness: the loop of disk has started two invocations, both on ticks;
\* the queue holds every Update disk has sent, the one of the initial run
\* and one of the loop, so one invocation of the loop failed, and the last
\* one succeeded: its value was published after the failure.
C12_Witness ==
    /\ nruns = 2
    /\ ntriggers = 0
    /\ pc["disk"] = "wait"
    /\ last_result["disk"] = "ok"
    /\ results = << >>
    /\ update_q = << Update("disk", "disk: 50%"), Update("disk", "disk: 51%") >>

(* ------------------------------------------------------------------ *)
(* C14                                                                 *)
(* ------------------------------------------------------------------ *)

\* m's receiver holds an unread trigger for m's own id.
HasOwn(m) == \E i \in DOMAIN trigger_rx[m] : trigger_rx[m][i] = m

\* m has completed its initial run and is in its loop.
SteadyState(m) == pc[m] \in { "wait", "wait_tick", "run", "send" }

\* before is a prefix of after.
IsPrefix(before, after) ==
    /\ Len(before) <= Len(after)
    /\ SubSeq(after, 1, Len(before)) = before

\* Taking a trigger for its own id makes the loop invoke its producer.
C14_TriggerStartsRun ==
    [][ \A m \in Spawned :
          (Selecting(m) /\ OwnTriggerTaken(m)) =>
             /\ pc'[m] = "run"
             /\ inflight'[m] = inflight[m] + 1 ]_vars

\* An idle loop with a trigger for its id next in its receiver can take it,
\* whatever the state of its interval.
C14_IdleWakesAtOnce ==
    \A m \in Spawned :
       (Selecting(m) /\ trigger_rx[m] # << >> /\ Head(trigger_rx[m]) = m)
          => ENABLED SelectTrigger(m)

\* While the producer runs or its value is being sent, the receiver keeps
\* what it holds and takes what is published.
C14_KeptWhileBusy ==
    [][ \A m \in Spawned :
          (pc[m] \in { "run", "send" } /\ Live(m)')
             => IsPrefix(trigger_rx[m], trigger_rx'[m]) ]_vars

\* C14: a trigger for X published while X's loop is alive in its steady
\* state (and not lost to lag: fewer than BusCap events are ever pending
\* here) makes X's producer run again: an idle loop can take it at once, a
\* busy loop keeps it on its receiver, and it is eventually taken, which
\* starts an invocation.
C14_TriggerWakesEarly ==
    /\ C14_TriggerStartsRun
    /\ C14_KeptWhileBusy
    /\ []C14_IdleWakesAtOnce
    /\ \A m \in Spawned : (SteadyState(m) /\ HasOwn(m)) ~> ~HasOwn(m)

\* C14 witness: disk's loop ran once on its tick, then a trigger for disk
\* was published and taken: the producer runs again and the receiver is
\* empty.
C14_Witness ==
    /\ pc["disk"] = "run"
    /\ inflight["disk"] = 1
    /\ nruns = 1
    /\ interval["disk"] = "periodic"
    /\ ntriggers = 1
    /\ last_send.id = "disk"
    /\ "disk" \in last_send.to
    /\ trigger_rx["disk"] = << >>
    /\ last_result["disk"] = "ok"

(* ------------------------------------------------------------------ *)
(* C15                                                                 *)
(* ------------------------------------------------------------------ *)

\* m is at tx.send(..).await with a value to publish.
Publishing(m) == pc[m] \in { "init_send", "send" }

\* The step puts the Update m is publishing at the back of the queue.
Accepted(m) ==
    /\ Publishing(m)
    /\ Len(update_q) < UpdateCap
    /\ update_q' = Append(update_q, Update(m, pending[m][1]))

\* The step takes the Update at the front of the queue and applies it.
TakenInOrder ==
    /\ update_q # << >>
    /\ update_q' = Tail(update_q)
    /\ results' = Insert(results, Head(update_q))

\* The queue changes only by one Update being accepted at its back or by
\* its front Update being applied: nothing is dropped, duplicated or
\* overtaken.
C15_FifoExactlyOnce ==
    [][ \/ update_q' = update_q
        \/ \E m \in Spawned : Accepted(m)
        \/ TakenInOrder ]_vars

\* A value being published stays with its task until the queue accepts it,
\* and while the queue is full the task neither moves nor invokes its
\* producer.
C15_SenderBlocks ==
    [][ \A m \in Spawned :
          Publishing(m) =>
             \/ Accepted(m)
             \/ /\ pc'[m] = pc[m]
                /\ pending'[m] = pending[m]
                /\ inflight'[m] = 0 ]_vars

\* C15: the queue never holds more than UpdateCap Updates; every Update it
\* accepts is applied exactly once and in arrival order; a task publishing
\* into a full queue waits with its value, without invoking its producer
\* again, until main has taken an Update.
C15_QueueBoundedFifo ==
    /\ [](Len(update_q) <= UpdateCap)
    /\ [](\A m \in Spawned :
            (Publishing(m) /\ Len(update_q) = UpdateCap)
               => ~ENABLED (InitialSend(m) \/ Send(m)))
    /\ C15_FifoExactlyOnce
    /\ C15_SenderBlocks

\* C15 witness: the queue is full, disk's Update among ram's, main is still
\* in its sink call, and ram waits at send with the value of its last
\* invocation.
C15_Witness ==
    /\ Len(update_q) = UpdateCap
    /\ update_q[2] = Update("disk", "disk: 50%")
    /\ update_q[UpdateCap] = Update("ram", "ram: 40%")
    /\ pc["ram"] = "send"
    /\ pending["ram"] = << "ram: 40%" >>
    /\ inflight["ram"] = 0
    /\ aggPc = "sink"

(* ------------------------------------------------------------------ *)
(* C16                                                                 *)
(* ------------------------------------------------------------------ *)

\* Between two Updates: exactly one sink call was made for the Update
\* processed last, with the bar rendered from the map as that Update left it.
C16_OneCallPerUpdate ==
    (aggPc = "recv" /\ Consumed # << >>) =>
       /\ sink_calls = << bar_string >>
       /\ bar_string = assemble_bar(results)
       /\ results = LatestMap(Consumed)

\* While an Update is being processed its render is done and its sink call
\* is still to come.
C16_RenderedBeforeCall ==
    aggPc = "sink" =>
       /\ sink_calls = << >>
       /\ bar_string = assemble_bar(results)
       /\ results = LatestMap(Consumed)

\* An Update is taken only by a loop at recv, which then goes to its sink
\* call; until that call has returned no further Update is taken.
C16_NoBatching ==
    [][ /\ Len(update_q') < Len(update_q) => (aggPc = "recv" /\ aggPc' = "sink")
        /\ aggPc = "sink" => IsPrefix(update_q, update_q') /\ results' = results ]_vars

\* C16: every Update main takes is rendered once and handed to the sink
\* once, with the string rendered from results right after that Update was
\* inserted, and the sink call returns before the next Update is taken: sink
\* calls and consumed Updates correspond one to one, in order, however many
\* Updates are queued.
C16_OneRenderOneSinkPerUpdate ==
    /\ [](C16_OneCallPerUpdate /\ C16_RenderedBeforeCall)
    /\ C16_NoBatching

\* C16 witness: two Updates were processed while a third one was already
\* queued; the sink call for the second carried the bar of the first two.
C16_Witness ==
    /\ aggPc = "recv"
    /\ Consumed = << Update("ram", "ram: 40%"), Update("disk", "disk: 50%") >>
    /\ update_q = << Update("vpn", "VPN") >>
    /\ sink_calls = << " ram: 40% | disk: 50% " >>

(* ------------------------------------------------------------------ *)
(* C17                                                                 *)
(* ------------------------------------------------------------------ *)

\* C17: once the receiving end of the Update channel is closed, every
\* monitor task that is alive eventually returns, and with that stops
\* invoking its producer, whether its invocations after the close succeed
\* or fail.
C17_ClosedChannelEndsLoops ==
    \A m \in Followed : (RxClosed /\ Live(m)) ~> ~Live(m)

(* ------------------------------------------------------------------ *)
(* C18                                                                 *)
(* ------------------------------------------------------------------ *)

\* a subscription whose next recv() reports a loss
Behind(m) == trigger_rx[m] # << >> /\ Head(trigger_rx[m]) = Lagged

\* the next recv() of m yields an event for m
OwnNext(m) == trigger_rx[m] # << >> /\ Head(trigger_rx[m]) = m

\* a step in which the callback has published
PublishSeen == last_op' # last_op \/ last_send' # last_send

\* no state of the subscriptions holds a callback up
C18_PublishAlwaysCompletes ==
    \A res \in WatchResults : ENABLED Callback(res)

\* a subscription holds at most the capacity of the bus
C18_Capacity == \A m \in Spawned : Len(Unread(trigger_rx[m])) <= BusCap

\* a publish reaches every live subscription as its newest unread event; a
\* subscription that already held BusCap unread events gives up its oldest
\* ones for it and is marked as behind
C18_OldestLost ==
    \A m \in Spawned :
       (PublishSeen /\ Live(m)) =>
          LET old == Unread(trigger_rx[m])
              new == Unread(trigger_rx'[m])
          IN  /\ new # << >>
              /\ new[Len(new)] = last_send'.id
              /\ Len(old) = BusCap =>
                    /\ Behind(m)'
                    /\ Len(new) = BusCap
                    /\ \E k \in 1..BusCap :
                          SubSeq(new, 1, BusCap - k) = SubSeq(old, k + 1, BusCap)

\* the recv() of a select! that reports the loss takes no event, and the
\* task goes on
C18_LossOnlyReported ==
    \A m \in Spawned :
       (Selecting(m) /\ Behind(m) /\ ~Behind(m)') =>
          /\ trigger_rx'[m] = Unread(trigger_rx[m])
          /\ Live(m)'
          /\ AtSelect(m)'

\* after a loss the interval timer wakes the loop, and at the next select!
\* an event for the monitor is taken again
C18_StillWakeable ==
    \A m \in Spawned :
       /\ pc[m] = "wait_tick" => ENABLED SelectTick(m)
       /\ (Selecting(m) /\ OwnNext(m)) => ENABLED SelectTrigger(m)

\* C18: publishing a trigger id never waits, whatever the subscriptions
\* hold: a subscription with 16 unread events loses its oldest ones to the
\* new one, and the monitor task that finds the loss stays in its loop,
\* where its interval and later triggers wake it.
C18_PublishNeverBlocks ==
    /\ []C18_PublishAlwaysCompletes
    /\ []C18_Capacity
    /\ [][C18_OldestLost]_vars
    /\ [][C18_LossOnlyReported]_vars
    /\ []C18_StillWakeable

\* The disk task has just been told of a loss and still holds the 16 newest
\* events, while ram's subscription, never read, is behind too.
C18_Witness ==
    /\ pc["disk"] = "wait_tick"
    /\ Len(trigger_rx["disk"]) = BusCap
    /\ Behind("ram")

(* ------------------------------------------------------------------ *)
(* C19                                                                 *)
(* ------------------------------------------------------------------ *)

\* C19: a trigger id is published only for the creation of a file of the
\* trigger directory; the modification or the removal of a file named
\* like a module publishes nothing.
C19_OnlyCreationPublishes == last_op \in { "none", "create" }

(* ------------------------------------------------------------------ *)
(* C20                                                                 *)
(* ------------------------------------------------------------------ *)

\* recv() cannot return None while main holds update_tx, whichever monitor
\* tasks are still alive, none of them included
C20_MainKeepsSender ==
    /\ "main" \in Senders
    /\ \A tasks \in SUBSET Spawned : ~RecvNone(<< >>, { "main" } \cup tasks)

\* main's loop has not ended and update_rx has not been dropped
C20_LoopNeverEnds == aggPc # "done" /\ ~RxClosed

\* with an empty queue main waits at recv(): it neither leaves its loop nor
\* renders nor calls the sink
C20_WaitsOnEmptyQueue ==
    (aggPc = "recv" /\ update_q = << >>) => ~ENABLED (AggRecv \/ AggSink)

\* C20: main's loop ends only when recv() returns None, which needs every
\* Sender dropped, and main keeps update_tx: the loop never ends and
\* update_rx is never closed; once the queue is empty main waits at recv(),
\* without return and without rendering, also when no monitor task is
\* left to send.
C20_AggregatorNeverTerminates ==
    /\ []C20_MainKeepsSender
    /\ []C20_LoopNeverEnds
    /\ []C20_WaitsOnEmptyQueue

\* The disk task has returned after its failed initial run, ram's Updates
\* have all been rendered and main waits at recv() on the empty queue.
C20_Witness ==
    /\ pc["disk"] = "disabled"
    /\ aggPc = "recv"
    /\ update_q = << >>
    /\ results # << >>
    /\ Senders = { "main", "ram" }

====
